---- MODULE Spec2Model ----
(***************************************************************************)
(* prune_include.py: for every file of a project, try to disable each      *)
(* directive line (comment prefix + line), run the external builder and    *)
(* keep the change when the artifact is produced, otherwise restore the    *)
(* line and rebuild.  The model follows main(), initialize(),              *)
(* process_file(), prune_include() and inplace_insert() step by step.      *)
(* Texts are compared without terminators where a claim speaks of the text *)
(* of a line, with them where it speaks of the content of a file.          *)
(*                                                                         *)
(* A file on disk is a sequence of line records [txt, eol]: txt is the     *)
(* sequence of characters of the line without its terminator, eol its      *)
(* terminator on disk ("LF", "CRLF", or "NONE" for a last line without     *)
(* one).  A line as Python sees it is a sequence of characters ending in   *)
(* "\n" (text mode, universal newlines).  The token is the one character   *)
(* "T"; the regular expression of process_file is matched on characters.   *)
(*                                                                         *)
(* Spec is one run of the program.  SpecTwice lets a second run follow a   *)
(* successful one, SpecAlways adds the scheduler that never skips Pass 2,  *)
(* SpecLive is Spec with every enabled step eventually taken, and          *)
(* SpecInplace follows a single inplace_insert call through the steps of   *)
(* fileinput, with a second process reading the file.                      *)
(***************************************************************************)
EXTENDS Integers, Sequences, FiniteSets, TLC

\* ---------------------------------------------------------------- bounds
MaxFiles == 2
MaxLines == 3
MaxCand  == 2

VARIABLES
  files,          \* disk: sequence of files, each a sequence of line records
  artifact,       \* TRUE iff the artifact file exists
  returncode,     \* exit status of the last builder process
  pc,             \* position of the process in main()
  file_idx,       \* index into file_list of the file being processed
  is_reversed,    \* process_file's is_reversed argument (TRUE: Pass 1)
  include_lines,  \* line numbers still to be tried in the current pass
  backup_lines,   \* line number -> line captured by the scan
  line_number,    \* target of the prune_include call in progress (0: none)
  was_changed,    \* process_file's accumulator
  new_is_changed, \* what the last prune_include call returned
  comment,        \* args.comment
  linesep,        \* os.linesep of the platform, as an eol tag
  det,            \* TRUE: the builder is a function of the file texts
  found,          \* TRUE: the builder command can be started
  memo,           \* outcomes the deterministic builder has shown so far
  built,          \* content of the files at the last builder invocation
  builds,         \* number of builder invocations of this run
  run,            \* 1: first run of main(), 2: run on the result of the first
  orig,           \* content of the files when this run started
  pre,            \* content of the files when the current trial began
  committed,      \* <<file, line>> pairs committed in this run, in order
  stat,           \* per-file bookkeeping of the scheduler
  exit_msg,       \* what exit_error reported: kind, and file and line if any
  io              \* the file being rewritten by inplace_insert, step by step

\* the command line and the platform, the builder, the scheduler's locals
config  == <<comment, linesep, det, found>>
builder == <<artifact, returncode, memo, built, builds>>
locals  == <<file_idx, is_reversed, include_lines, backup_lines, line_number,
             was_changed, new_is_changed>>
history == <<run, orig, pre, committed, stat, exit_msg>>

vars == <<files, pc, config, io, builder, locals, history>>

\* ------------------------------------------------------------ characters
Token == "T"
NL    == "\n"
Names == <<"a", "b", "c", "d", "e", "f", "g", "h">>

IsSpace(c) == c \in {" ", NL}

\* args.comment: the default "// " and a prefix made of white space only
Comments == { <<"/", "/", " ">>, <<" ">> }

\* ------------------------------------------------------- reading, writing
\* a line as a text-mode read returns it: terminator translated to "\n"
ReadLine(rec) == IF rec.eol = "NONE" THEN rec.txt ELSE rec.txt \o <<NL>>

\* print(s, end='') to a text-mode file: "\n" becomes os.linesep
WriteLine(s) ==
  IF Len(s) > 0 /\ s[Len(s)] = NL
  THEN [txt |-> SubSeq(s, 1, Len(s) - 1), eol |-> linesep]
  ELSE [txt |-> s, eol |-> "NONE"]

\* off by one: the line after the target is replaced
inplace_insert_next(content, n, replace_line) ==
  [i \in 1..Len(content) |->
     WriteLine(IF i = n + 1 THEN replace_line ELSE ReadLine(content[i]))]

\* the target line is printed after its replacement instead of being
\* dropped: the file grows by a line
inplace_insert_added(content, n, replace_line) ==
  [i \in 1..(Len(content) + 1) |->
     WriteLine(IF i = n THEN replace_line
               ELSE ReadLine(content[IF i > n THEN i - 1 ELSE i]))]

inplace_insert(content, n, replace_line) ==
  [i \in 1..Len(content) |->
     WriteLine(IF i = n THEN replace_line ELSE ReadLine(content[i]))]

\* re.search in place of re.match: the token may follow any characters
Matches_search(s) ==
  \E k \in 1..Len(s) :
    /\ k + 1 <= Len(s)
    /\ s[k] = Token
    /\ IsSpace(s[k + 1])

\* re.match(f'^\\s*{token}\\s+', line)
FirstNonSpace(s) ==
  LET idx == {i \in 1..Len(s) : ~IsSpace(s[i])}
  IN  IF idx = {} THEN Len(s) + 1
      ELSE CHOOSE i \in idx : \A j \in idx : i <= j

Matches(s) ==
  LET k == FirstNonSpace(s)
  IN  /\ k + 1 <= Len(s)
      /\ s[k] = Token
      /\ IsSpace(s[k + 1])

\* include_lines of process_file, in reading order
RECURSIVE ScanFrom(_, _)
ScanFrom(content, i) ==
  IF i > Len(content) THEN <<>>
  ELSE IF Matches(ReadLine(content[i]))
       THEN <<i>> \o ScanFrom(content, i + 1)
       ELSE ScanFrom(content, i + 1)

Scan(content) == ScanFrom(content, 1)

\* the list of the scan is never reversed
Reverse_not(s) == s

Reverse(s) == [i \in 1..Len(s) |-> s[Len(s) + 1 - i]]

Range(s) == {s[i] : i \in 1..Len(s)}

\* ------------------------------------------------------------ the builder
\* what the builder reads: the characters of every line of every file
Key == [f \in 1..Len(files) |->
          [i \in 1..Len(files[f]) |-> files[f][i].txt]]

\* the builder does not repeat itself: its outcome on texts it has built
\* before is free
build_project_flaky(o, rc) ==
  /\ memo' = IF det /\ Key \notin DOMAIN memo THEN memo @@ (Key :> o)
             ELSE memo
  /\ artifact' = (artifact \/ o)
  /\ returncode' = rc
  /\ built' = files
  /\ builds' = builds + 1

\* outcome o (artifact produced or not) and exit status rc of one run of
\* the builder; a deterministic builder repeats what it did on these texts
build_project(o, rc) ==
  /\ det /\ Key \in DOMAIN memo => o = memo[Key]
  /\ memo' = IF det /\ Key \notin DOMAIN memo THEN memo @@ (Key :> o)
             ELSE memo
  /\ artifact' = (artifact \/ o)
  /\ returncode' = rc
  /\ built' = files
  /\ builds' = builds + 1

\* ------------------------------------------------------------- projects
LineText(kind, i) ==
  IF kind = "dir"
  THEN IF i % 2 = 1 THEN <<Token, " ", Names[i]>>
                    ELSE <<" ", Token, " ", Names[i]>>
  ELSE IF i % 2 = 1 THEN <<"x">> ELSE <<Token, "x">>

FileShapes == UNION {[1..m -> {"dir", "oth"}] : m \in 1..MaxLines}

\* the file of the order-sensitivity scenario: directives at lines 3 and 7
ScenarioShape ==
  << <<"oth", "oth", "dir", "oth", "oth", "oth", "dir">> >>

RECURSIVE NumLines(_)
NumLines(shape) ==
  IF shape = <<>> THEN 0 ELSE Len(Head(shape)) + NumLines(Tail(shape))

RECURSIVE NumDirs(_)
NumDirs(shape) ==
  IF shape = <<>> THEN 0
  ELSE Cardinality({i \in 1..Len(Head(shape)) : Head(shape)[i] = "dir"})
         + NumDirs(Tail(shape))

\* projects of at most MaxFiles files, MaxLines lines and MaxCand directive
\* lines in all, and the scenario file
Shapes ==
  {sh \in UNION {[1..n -> FileShapes] : n \in 0..MaxFiles} :
     NumLines(sh) <= MaxLines /\ NumDirs(sh) <= MaxCand}
    \cup {ScenarioShape}

FileOf(shape, style) ==
  [i \in 1..Len(shape) |->
     [txt |-> LineText(shape[i], i),
      eol |-> IF style = "NOEOF"
              THEN (IF i = Len(shape) THEN "NONE" ELSE "LF")
              ELSE style]]

Project(shape, style) == [f \in 1..Len(shape) |-> FileOf(shape[f], style)]

\* bookkeeping of the file being processed: n candidates at its first scan,
\* b0 builds made before it, c1 removals committed in Pass 1, p2 set once
\* Pass 2 has started, passes scans made, trials prune_include calls made,
\* tried the line numbers tried in the current pass in order, tb the number
\* of builds made when the current trial began, p1end its content when
\* Pass 1 ended
NoStat == [n |-> 0, b0 |-> 0, c1 |-> 0, p2 |-> FALSE, passes |-> 0,
           trials |-> 0, tried |-> <<>>, tb |-> 0, p1end |-> <<>>]

\* no rewrite is being followed step by step
NoRewrite == [exists |-> TRUE, bak |-> <<>>, pos |-> 0, buf |-> <<>>,
              replace_line |-> <<>>, seen |-> <<>>]

NoError == [kind |-> "none", file |-> 0, line |-> 0]

Init ==
  /\ \E shape \in Shapes, style \in {"LF", "CRLF", "NOEOF"} :
       /\ files = Project(shape, style)
       /\ orig = Project(shape, style)
       /\ pre = Project(shape, style)
       /\ built = Project(shape, style)
  /\ artifact \in BOOLEAN
  /\ returncode = 0
  /\ pc = "main"
  /\ file_idx = 0
  /\ is_reversed = TRUE
  /\ include_lines = <<>>
  /\ backup_lines = <<>>
  /\ line_number = 0
  /\ was_changed = FALSE
  /\ new_is_changed = FALSE
  /\ comment \in Comments
  /\ linesep \in {"LF", "CRLF"}
  /\ det \in BOOLEAN
  /\ found \in BOOLEAN
  /\ memo = <<>>
  /\ builds = 0
  /\ run = 1
  /\ committed = <<>>
  /\ stat = NoStat
  /\ exit_msg = NoError
  /\ io = NoRewrite

\* ------------------------------------------------------------------ main
\* main, lines 198-200: no file of the extension under the folder
NoFiles ==
  /\ pc = "main"
  /\ Len(files) = 0
  /\ exit_msg' = [NoError EXCEPT !.kind = "nofiles"]
  /\ pc' = "exit1"
  /\ UNCHANGED <<files, config, io, builder, locals, run, orig, pre,
                 committed, stat>>

\* the file list is not tested: initialize starts with no file at all
InitRemoveArtifact_nocheck ==
  /\ pc = "main"
  /\ artifact' = FALSE
  /\ pc' = "init_build"
  /\ UNCHANGED <<files, config, io, returncode, memo, built, builds, locals,
                 history>>

\* initialize does not delete the artifact an earlier build left
InitRemoveArtifact_stale ==
  /\ pc = "main"
  /\ Len(files) > 0
  /\ pc' = "init_build"
  /\ UNCHANGED <<files, config, io, builder, locals, history>>

\* initialize, line 173: remove_artifact
InitRemoveArtifact ==
  /\ pc = "main"
  /\ Len(files) > 0
  /\ artifact' = FALSE
  /\ pc' = "init_build"
  /\ UNCHANGED <<files, config, io, returncode, memo, built, builds, locals,
                 history>>

\* initialize, lines 175-178: touch every file (content unchanged), build
InitBuild ==
  /\ pc = "init_build"
  /\ found
  /\ \E o \in BOOLEAN, rc \in {0, 1} : build_project(o, rc)
  /\ pc' = "init_check"
  /\ UNCHANGED <<files, config, io, locals, history>>

\* initialize, line 178, and main, lines 212-213: subprocess.run raises
\* FileNotFoundError when the command cannot be started
BuilderNotFound ==
  /\ pc = "init_build"
  /\ ~found
  /\ exit_msg' = [NoError EXCEPT !.kind = "notfound"]
  /\ pc' = "exit1"
  /\ UNCHANGED <<files, config, io, builder, locals, run, orig, pre,
                 committed, stat>>

\* the check of the baseline is left out
BaselineFailed_never == FALSE

\* the test of line 180
BaselineFailed == ~artifact

\* initialize, lines 180-182: the artifact is absent
InitFail ==
  /\ pc = "init_check"
  /\ BaselineFailed
  /\ exit_msg' = [NoError EXCEPT !.kind = "baseline"]
  /\ returncode' = 0
  /\ pc' = "exit1"
  /\ UNCHANGED <<files, config, io, artifact, memo, built, builds, locals,
                 run, orig, pre, committed, stat>>

\* initialize, line 184, and main, line 205: first file, reversed pass
InitDone ==
  /\ pc = "init_check"
  /\ ~BaselineFailed
  /\ file_idx' = 1
  /\ is_reversed' = TRUE
  /\ returncode' = 0
  /\ pc' = "scan"
  /\ UNCHANGED <<files, config, io, artifact, memo, built, builds,
                 include_lines, backup_lines, line_number, was_changed,
                 new_is_changed, history>>

\* ---------------------------------------------------------- process_file
\* process_file, lines 141-155: scan the file, reverse the list if asked
ProcessFile ==
  /\ pc = "scan"
  /\ LET lines == Scan(files[file_idx])
     IN  /\ include_lines' = IF is_reversed THEN Reverse(lines) ELSE lines
         /\ backup_lines' =
              [n \in Range(lines) |-> ReadLine(files[file_idx][n])]
         /\ stat' = IF is_reversed
                    THEN [NoStat EXCEPT !.n = Len(lines), !.b0 = builds,
                                        !.tb = builds, !.passes = 1]
                    ELSE [stat EXCEPT !.p2 = TRUE, !.passes = @ + 1,
                                      !.tried = <<>>]
  /\ was_changed' = FALSE
  /\ pc' = "loop"
  /\ UNCHANGED <<files, config, io, builder, file_idx, is_reversed,
                 line_number, new_is_changed, run, orig, pre, committed,
                 exit_msg>>

\* ---------------------------------------------------------- prune_include
\* remove_artifact is left out: the artifact of the previous build stays
TrialBegin_stale ==
  /\ pc = "loop"
  /\ include_lines # <<>>
  /\ line_number' = Head(include_lines)
  /\ include_lines' = Tail(include_lines)
  /\ pre' = files
  /\ stat' = [stat EXCEPT !.tb = builds, !.trials = @ + 1,
                          !.tried = Append(@, Head(include_lines))]
  /\ pc' = "mutate"
  /\ UNCHANGED <<files, config, io, builder, file_idx, is_reversed,
                 backup_lines, was_changed, new_is_changed, run, orig,
                 committed, exit_msg>>

\* process_file, line 156, and prune_include, line 115: next candidate,
\* remove_artifact
TrialBegin ==
  /\ pc = "loop"
  /\ include_lines # <<>>
  /\ line_number' = Head(include_lines)
  /\ include_lines' = Tail(include_lines)
  /\ artifact' = FALSE
  /\ pre' = files
  /\ stat' = [stat EXCEPT !.tb = builds, !.trials = @ + 1,
                          !.tried = Append(@, Head(include_lines))]
  /\ pc' = "mutate"
  /\ UNCHANGED <<files, config, io, returncode, memo, built, builds,
                 file_idx, is_reversed, backup_lines, was_changed,
                 new_is_changed, run, orig, committed, exit_msg>>

\* prune_include, lines 116-117: comment the line out
Mutate ==
  /\ pc = "mutate"
  /\ files' = [files EXCEPT ![file_idx] =
                 inplace_insert(@, line_number,
                                comment \o backup_lines[line_number])]
  /\ pc' = "test_build"
  /\ UNCHANGED <<config, io, builder, locals, history>>

\* prune_include, line 118
TestBuild ==
  /\ pc = "test_build"
  /\ \E o \in BOOLEAN, rc \in {0, 1} : build_project(o, rc)
  /\ pc' = "test_check"
  /\ UNCHANGED <<files, config, io, locals, history>>

\* the exit status of the builder decides
TestPassed_status == returncode = 0

\* the exit status of the builder must be zero as well
TestPassed_both == artifact /\ returncode = 0

\* the line is always restored, whatever the test build produced
TestPassed_never == FALSE

\* the test of line 120
TestPassed == artifact

\* prune_include, lines 120-122 and 129, process_file, lines 157-158: the
\* artifact exists, the call returns True
Commit ==
  /\ pc = "test_check"
  /\ TestPassed
  /\ new_is_changed' = TRUE
  /\ was_changed' = TRUE
  /\ committed' = Append(committed, <<file_idx, line_number>>)
  /\ stat' = IF is_reversed THEN [stat EXCEPT !.c1 = @ + 1] ELSE stat
  /\ line_number' = 0
  /\ returncode' = 0
  /\ pc' = "loop"
  /\ UNCHANGED <<files, config, io, artifact, memo, built, builds,
                 file_idx, is_reversed, include_lines, backup_lines, run,
                 orig, pre, exit_msg>>

\* prune_include, lines 123-124: the artifact is absent, restore the line
Revert ==
  /\ pc = "test_check"
  /\ ~TestPassed
  /\ files' = [files EXCEPT ![file_idx] =
                 inplace_insert(@, line_number, backup_lines[line_number])]
  /\ returncode' = 0
  /\ pc' = "restore_build"
  /\ UNCHANGED <<config, io, artifact, memo, built, builds, locals, history>>

\* prune_include, line 125
RestoreBuild ==
  /\ pc = "restore_build"
  /\ \E o \in BOOLEAN, rc \in {0, 1} : build_project(o, rc)
  /\ pc' = "restore_check"
  /\ UNCHANGED <<files, config, io, locals, history>>

\* the check of the restore build is left out
RestoreFailed_never == FALSE

\* the exit status of the restore build is tested, not the artifact
RestoreFailed_status == returncode # 0

\* the test of line 127
RestoreFailed == ~artifact

\* prune_include, lines 127-128: exit_error names the line and the file
RestoreFail ==
  /\ pc = "restore_check"
  /\ RestoreFailed
  /\ exit_msg' = [kind |-> "restore", file |-> file_idx,
                  line |-> line_number]
  /\ returncode' = 0
  /\ pc' = "exit1"
  /\ UNCHANGED <<files, config, io, artifact, memo, built, builds, locals,
                 run, orig, pre, committed, stat>>

\* prune_include, line 129, process_file, lines 157-158: the call returns
\* False
Reverted ==
  /\ pc = "restore_check"
  /\ ~RestoreFailed
  /\ new_is_changed' = FALSE
  /\ line_number' = 0
  /\ returncode' = 0
  /\ pc' = "loop"
  /\ UNCHANGED <<files, config, io, artifact, memo, built, builds,
                 file_idx, is_reversed, include_lines, backup_lines,
                 was_changed, history>>

\* -------------------------------------------------------- end of a pass
\* Pass 2 is run whatever Pass 1 did
NeedPass2_always == TRUE

\* the test of main, line 207
NeedPass2 == was_changed

\* a pass is started again whenever the last one changed the file, up to a
\* third one
StartPass2_again ==
  /\ pc = "loop"
  /\ include_lines = <<>>
  /\ stat.passes <= 2
  /\ NeedPass2
  /\ is_reversed' = FALSE
  /\ stat' = [stat EXCEPT !.p1end = files[file_idx]]
  /\ pc' = "scan"
  /\ UNCHANGED <<files, config, io, builder, file_idx, include_lines,
                 backup_lines, line_number, was_changed, new_is_changed,
                 run, orig, pre, committed, exit_msg>>

\* main, lines 206-208: the reversed pass changed the file, scan it again
StartPass2 ==
  /\ pc = "loop"
  /\ include_lines = <<>>
  /\ is_reversed
  /\ NeedPass2
  /\ is_reversed' = FALSE
  /\ stat' = [stat EXCEPT !.p1end = files[file_idx]]
  /\ pc' = "scan"
  /\ UNCHANGED <<files, config, io, builder, file_idx, include_lines,
                 backup_lines, line_number, was_changed, new_is_changed,
                 run, orig, pre, committed, exit_msg>>

\* main goes on to the next file as soon as a pass is over, Pass 2 or not
FileDone_early ==
  /\ pc = "loop"
  /\ include_lines = <<>>

\* both calls of process_file for the file of this iteration have returned
FileDone ==
  /\ pc = "loop"
  /\ include_lines = <<>>
  /\ ~(is_reversed /\ NeedPass2)

\* main, line 205: the next file of file_list
NextFile ==
  /\ FileDone
  /\ file_idx < Len(files)
  /\ file_idx' = file_idx + 1
  /\ is_reversed' = TRUE
  /\ pc' = "scan"
  /\ UNCHANGED <<files, config, io, builder, include_lines, backup_lines,
                 line_number, was_changed, new_is_changed, history>>

\* main, line 211: sys.exit(0)
Success ==
  /\ FileDone
  /\ file_idx = Len(files)
  /\ pc' = "exit0"
  /\ UNCHANGED <<files, config, io, builder, locals, history>>

\* the program is started again on the project a successful run left; the
\* second run is followed for a deterministic builder only
Restart ==
  /\ pc = "exit0"
  /\ run = 1
  /\ det
  /\ run' = 2
  /\ orig' = files
  /\ pre' = files
  /\ pc' = "main"
  /\ file_idx' = 0
  /\ is_reversed' = TRUE
  /\ include_lines' = <<>>
  /\ backup_lines' = <<>>
  /\ line_number' = 0
  /\ was_changed' = FALSE
  /\ new_is_changed' = FALSE
  /\ builds' = 0
  /\ committed' = <<>>
  /\ stat' = NoStat
  /\ UNCHANGED <<files, config, io, artifact, returncode, memo, built,
                 exit_msg>>

Next ==
  \/ NoFiles
  \/ InitRemoveArtifact
  \/ InitBuild
  \/ BuilderNotFound
  \/ InitFail
  \/ InitDone
  \/ ProcessFile
  \/ TrialBegin
  \/ Mutate
  \/ TestBuild
  \/ Commit
  \/ Revert
  \/ RestoreBuild
  \/ RestoreFail
  \/ Reverted
  \/ StartPass2
  \/ NextFile
  \/ Success

\* one run of the program
Spec == Init /\ [][Next]_vars

\* one run in which every step that can be taken is taken in the end: the
\* program is sequential and every call, the builder's included, returns
SpecLive == Spec /\ WF_vars(Next)

\* a run, and a second run on what the first one left
NextTwice ==
  \/ Next
  \/ Restart

SpecTwice == Init /\ [][NextTwice]_vars

\* the scheduler main is compared with: it runs Pass 2 also when Pass 1
\* committed nothing (followed for a deterministic builder only)
StartPass2Always ==
  /\ pc = "loop"
  /\ include_lines = <<>>
  /\ is_reversed
  /\ ~NeedPass2
  /\ det
  /\ is_reversed' = FALSE
  /\ stat' = [stat EXCEPT !.p1end = files[file_idx]]
  /\ pc' = "scan"
  /\ UNCHANGED <<files, config, io, builder, file_idx, include_lines,
                 backup_lines, line_number, was_changed, new_is_changed,
                 run, orig, pre, committed, exit_msg>>

\* a run in which Pass 2 may follow a Pass 1 that committed nothing
NextAlways ==
  \/ Next
  \/ StartPass2Always

SpecAlways == Init /\ [][NextAlways]_vars

\* ---------------------------------------------------- inplace_insert, slowly
\* One call of inplace_insert followed through the steps fileinput makes of
\* it with inplace=True, next to a process that reads the file.  files holds
\* what is stored under the name of the file, io.exists whether the name
\* exists, io.bak the backup file, io.pos the number of lines read from it,
\* io.buf the lines printed and still in the buffer of the output, io.seen
\* what the other process read last.

\* the call is the one of a trial that disables a line (disable) or the one
\* that restores it, on any candidate line of any file of a project
InitInplace ==
  /\ comment \in Comments
  /\ linesep \in {"LF", "CRLF"}
  /\ \E shape \in Shapes, style \in {"LF", "CRLF", "NOEOF"} :
       \E f \in 1..Len(shape), disable \in BOOLEAN :
         \E n \in Range(Scan(Project(shape, style)[f])) :
           LET before == Project(shape, style)
               line   == ReadLine(before[f][n])
               now    == IF disable THEN before
                         ELSE [before EXCEPT ![f] =
                                 inplace_insert(@, n, comment \o line)]
           IN  /\ files = now
               /\ pre = now
               /\ orig = before
               /\ built = before
               /\ file_idx = f
               /\ line_number = n
               /\ backup_lines = (n :> line)
               /\ io = [NoRewrite EXCEPT !.replace_line =
                          IF disable THEN comment \o line ELSE line]
  /\ pc = "ip_open"
  /\ artifact = FALSE
  /\ returncode = 0
  /\ is_reversed = TRUE
  /\ include_lines = <<>>
  /\ was_changed = FALSE
  /\ new_is_changed = FALSE
  /\ det = TRUE
  /\ found = TRUE
  /\ memo = <<>>
  /\ builds = 1
  /\ run = 1
  /\ committed = <<>>
  /\ stat = NoStat
  /\ exit_msg = NoError

\* everything but the file, the position and io
inplace_frame == <<config, builder, locals, history>>

\* fileinput, first line read: the file is renamed to its backup name and
\* opened for reading
IpOpen ==
  /\ pc = "ip_open"
  /\ io' = [io EXCEPT !.exists = FALSE, !.bak = files[file_idx]]
  /\ files' = [files EXCEPT ![file_idx] = <<>>]
  /\ pc' = "ip_create"
  /\ UNCHANGED inplace_frame

\* the name is created anew, empty, and standard output is directed to it
IpCreate ==
  /\ pc = "ip_create"
  /\ io' = [io EXCEPT !.exists = TRUE]
  /\ pc' = "ip_copy"
  /\ UNCHANGED <<files, inplace_frame>>

\* inplace_insert, lines 99-103: one line is read and one is printed
IpPrint ==
  /\ pc = "ip_copy"
  /\ io.pos < Len(io.bak)
  /\ LET i == io.pos + 1
         s == IF i = line_number THEN io.replace_line
              ELSE ReadLine(io.bak[i])
     IN  io' = [io EXCEPT !.pos = i, !.buf = Append(@, WriteLine(s))]
  /\ UNCHANGED <<files, pc, inplace_frame>>

\* the buffer of the output is full and is written to the file
IpFlush ==
  /\ pc = "ip_copy"
  /\ io.buf # <<>>
  /\ files' = [files EXCEPT ![file_idx] = @ \o io.buf]
  /\ io' = [io EXCEPT !.buf = <<>>]
  /\ UNCHANGED <<pc, inplace_frame>>

\* inplace_insert, line 98, end of the with block: the output is flushed
\* and closed, the backup file is deleted
IpClose ==
  /\ pc = "ip_copy"
  /\ io.pos = Len(io.bak)
  /\ files' = [files EXCEPT ![file_idx] = @ \o io.buf]
  /\ io' = [io EXCEPT !.buf = <<>>, !.bak = <<>>]
  /\ pc' = "ip_done"
  /\ UNCHANGED inplace_frame

\* another process opens the file by its name and reads it
IpObserve ==
  /\ pc \in {"ip_open", "ip_create", "ip_copy", "ip_done"}
  /\ io' = [io EXCEPT !.seen =
              << [exists |-> io.exists,
                  content |-> IF io.exists THEN files[file_idx]
                              ELSE <<>>] >>]
  /\ UNCHANGED <<files, pc, inplace_frame>>

NextInplace ==
  \/ IpOpen
  \/ IpCreate
  \/ IpPrint
  \/ IpFlush
  \/ IpClose
  \/ IpObserve

SpecInplace == InitInplace /\ [][NextInplace]_vars

\* ----------------------------------------------------------------- types
TypeOK ==
  /\ artifact \in BOOLEAN
  /\ pc \in {"main", "init_build", "init_check", "scan", "loop", "mutate",
             "test_build", "test_check", "restore_build", "restore_check",
             "exit0", "exit1", "ip_open", "ip_create", "ip_copy", "ip_done"}
  /\ file_idx \in 0..Len(files)
  /\ run \in {1, 2}

\* ------------------------------------------------------- shared notions
\* a prune_include call has begun and has neither returned nor aborted
InFlight ==
  pc \in {"mutate", "test_build", "test_check", "restore_build",
          "restore_check"}

\* the directive lines of file f when this run started
Cands(f) == Range(Scan(orig[f]))

Original(f, i) == files[f][i].txt = orig[f][i].txt

Disabled(f, i) == files[f][i].txt = comment \o orig[f][i].txt

DisabledTwice(f, i) ==
  files[f][i].txt = comment \o comment \o orig[f][i].txt

\* the comment prefix begins with a character that is neither white space
\* nor the token, so that a prefixed line does not match the pattern
ProperComment ==
  /\ comment # <<>>
  /\ ~IsSpace(comment[1])
  /\ comment[1] # Token

\* every <<file, line>> of the project
Positions ==
  UNION {{<<f, i>> : i \in 1..Len(files[f])} : f \in 1..Len(files)}

\* ------------------------------------------------------------------- C1
\* C1 as stated: whenever no trial is in flight, every file has, for a
\* STRICT subset D of its directive lines (or for none), the text
\* comment + original on the lines of D and the original text elsewhere.
C1_StrictSubset ==
  ~InFlight =>
    \A f \in 1..Len(files) :
      /\ Len(files[f]) = Len(orig[f])
      /\ \E D \in SUBSET Cands(f) :
           /\ D = {} \/ D # Cands(f)
           /\ \A i \in 1..Len(files[f]) :
                IF i \in D THEN Disabled(f, i) ELSE Original(f, i)

\* C1 as amended: whenever no trial is in flight, every line of every file
\* holds its original text, or it is a directive line and holds comment +
\* original text, or, when the comment prefix is not a proper one, comment
\* + comment + original text; all the directive lines of a file may be
\* disabled at once.  Texts are compared without line terminators.
C1_ProjectState ==
  ~InFlight =>
    \A f \in 1..Len(files) :
      /\ Len(files[f]) = Len(orig[f])
      /\ \A i \in 1..Len(files[f]) :
           \/ Original(f, i)
           \/ /\ i \in Cands(f)
              /\ \/ Disabled(f, i)
                 \/ ~ProperComment /\ DisabledTwice(f, i)

\* a run has ended with every directive line of a file disabled
C1_Witness ==
  /\ pc = "exit0"
  /\ \E f \in 1..Len(files) :
       /\ Cands(f) # {}
       /\ \A i \in Cands(f) : Disabled(f, i)
       /\ \E i \in 1..Len(files[f]) : i \notin Cands(f) /\ Original(f, i)

\* ------------------------------------------------------------------- C2
\* C2: after the revert of a trial whose test build left the artifact
\* absent, the file content equals, line for line and terminators
\* included, the content right before the trial began.
C2_RollbackExact ==
  pc \in {"restore_build", "restore_check"} => files = pre

\* ------------------------------------------------------------------- C3
\* C3: during a prune_include call only the target line of the target file
\* differs from the pre-trial content, and a line that does not match the
\* directive pattern is never rewritten in the whole run.
C3_Frame ==
  /\ InFlight =>
       \A p \in Positions :
         p # <<file_idx, line_number>> => files[p[1]][p[2]] = pre[p[1]][p[2]]
  /\ \A p \in Positions :
       ~Matches(ReadLine(orig[p[1]][p[2]]))
          => files[p[1]][p[2]] = orig[p[1]][p[2]]

\* ------------------------------------------------------------------- C4
\* C4: a prune_include call returns True exactly when the artifact exists
\* after the test build, and then the line holds comment + original text;
\* it returns False exactly when the artifact is absent after the test
\* build and present after the restore build, and then the line holds its
\* original text; the exit status of the builder plays no part.
C4_Outcome ==
  [][ /\ pc = "test_check" =>
           /\ artifact <=> (pc' = "loop" /\ new_is_changed')
           /\ ~artifact <=> pc' = "restore_build"
           /\ pc' = "loop" =>
                /\ files' = files
                /\ files[file_idx][line_number].txt =
                     comment \o pre[file_idx][line_number].txt
      /\ pc = "restore_check" =>
           /\ artifact <=> (pc' = "loop" /\ ~new_is_changed')
           /\ pc' = "loop" =>
                /\ files' = files
                /\ files[file_idx][line_number].txt =
                     pre[file_idx][line_number].txt
    ]_vars

\* a call has returned True and its line is disabled on disk
C4_Witness ==
  /\ pc = "loop"
  /\ new_is_changed
  /\ committed # <<>>
  /\ LET c == committed[Len(committed)]
     IN  files[c[1]][c[2]].txt = comment \o pre[c[1]][c[2]].txt

\* ------------------------------------------------------------------- C5
\* C5: when the restore build leaves the artifact absent the run aborts at
\* once with the failure exit naming the file and the line of the trial;
\* after the abort no candidate is tried, no build runs, no file is
\* written.
C5_IntegrityAbort ==
  [][ /\ pc = "restore_check" /\ ~artifact =>
           /\ pc' = "exit1"
           /\ exit_msg' = [kind |-> "restore", file |-> file_idx,
                           line |-> line_number]
           /\ files' = files
           /\ builds' = builds
      /\ pc = "exit1" =>
           /\ pc' = "exit1"
           /\ files' = files
           /\ builds' = builds
           /\ include_lines' = include_lines
    ]_vars

\* the run has aborted on a failed restore while candidates or files
\* remained
C5_Witness ==
  /\ pc = "exit1"
  /\ exit_msg.kind = "restore"
  /\ exit_msg.file = file_idx
  /\ include_lines # <<>> \/ file_idx < Len(files)
  /\ files[file_idx][exit_msg.line].txt = orig[file_idx][exit_msg.line].txt

\* ------------------------------------------------------------------- C6
\* C6: when the build of initialize leaves the artifact absent the run
\* aborts there with the failure exit: no scan and no trial has started,
\* the builder has run exactly once and every file has its original
\* content.
C6_BaselineGate ==
  [][ pc = "init_check" /\ ~artifact =>
        /\ pc' = "exit1"
        /\ exit_msg'.kind = "baseline"
        /\ builds' = 1
        /\ files' = orig
        /\ file_idx' = 0
        /\ stat' = NoStat
        /\ committed' = <<>>
    ]_vars

\* the run has aborted in initialize on a project that has directive lines
C6_Witness ==
  /\ pc = "exit1"
  /\ exit_msg.kind = "baseline"
  /\ builds = 1
  /\ \E f \in 1..Len(files) : Cands(f) # {}

\* ------------------------------------------------------------------- C7
\* C7 as stated: with a deterministic builder, the second run, made on the
\* result of a successful first run, commits no removal.
C7_Idempotent ==
  run = 2 /\ det => committed = <<>>

\* texts k2 are texts k1 with the comment prefix added to some lines
MoreDisabled(k1, k2) ==
  /\ DOMAIN k1 = DOMAIN k2
  /\ \A f \in DOMAIN k1 :
       /\ DOMAIN k1[f] = DOMAIN k2[f]
       /\ \A i \in DOMAIN k1[f] :
            k2[f][i] = k1[f][i] \/ k2[f][i] = comment \o k1[f][i]

\* no outcome seen so far contradicts a monotone builder: a build that
\* fails keeps failing when more lines are disabled
MonotoneSoFar ==
  \A k1 \in DOMAIN memo, k2 \in DOMAIN memo :
    MoreDisabled(k1, k2) /\ ~memo[k1] => ~memo[k2]

\* C7 as amended: with a deterministic builder that is monotone (a build
\* that fails keeps failing when more directive lines are disabled) and a
\* proper comment prefix, the second run commits no removal.
C7_IdempotentMonotone ==
  run = 2 /\ det /\ ProperComment /\ MonotoneSoFar => committed = <<>>

\* the second run has ended after trying, and restoring, a candidate of a
\* project in which the first run disabled a line
C7_Witness ==
  /\ run = 2
  /\ det
  /\ ProperComment
  /\ MonotoneSoFar
  /\ pc = "exit0"
  /\ builds >= 3
  /\ \E f \in 1..Len(orig) : \E i \in 1..Len(orig[f]) :
       /\ Len(orig[f][i].txt) > Len(comment)
       /\ SubSeq(orig[f][i].txt, 1, Len(comment)) = comment

\* ------------------------------------------------------------------- C8
\* a trial begins on a line committed earlier in this run, or a committed
\* line no longer holds comment + original text
CommitKept ==
  /\ pc = "loop" /\ pc' = "mutate" =>
       \A k \in 1..Len(committed) :
         committed[k] # <<file_idx, line_number'>>
  /\ \A k \in 1..Len(committed') :
       files'[committed'[k][1]][committed'[k][2]].txt =
         comment \o orig'[committed'[k][1]][committed'[k][2]].txt

\* C8 as stated: a line committed as removed is never passed to
\* prune_include again in the same run, and keeps the text comment +
\* original until the run ends.
C8_CommitMonotone == [][CommitKept]_vars

\* C8 as amended: the same, for a proper comment prefix.
C8_CommitMonotoneProper == [][ProperComment => CommitKept]_vars

\* Pass 2 starts a trial in a file where Pass 1 committed a line
C8_Witness ==
  /\ ProperComment
  /\ pc = "mutate"
  /\ ~is_reversed
  /\ \E k \in 1..Len(committed) :
       /\ committed[k][1] = file_idx
       /\ Disabled(file_idx, committed[k][2])

\* ------------------------------------------------------------------- C9
Removed(f, i) == files[f][i].txt # orig[f][i].txt

\* the first run, on one file whose directive lines are A at line 3 and B
\* at line 7
IsScenario ==
  /\ run = 1
  /\ det
  /\ Len(orig) = 1
  /\ Scan(orig[1]) = <<3, 7>>

\* the builder succeeds with A alone or B alone disabled, fails with both
ScenarioOracle ==
  \A k \in DOMAIN memo :
    LET a0 == k[1][3] = orig[1][3].txt
        a1 == k[1][3] = comment \o orig[1][3].txt
        b0 == k[1][7] = orig[1][7].txt
        b1 == k[1][7] = comment \o orig[1][7].txt
    IN  /\ (a1 /\ b0) \/ (a0 /\ b1) => memo[k]
        /\ a1 /\ b1 => ~memo[k]

\* C9: in the scenario the run ends with exactly one of A and B removed,
\* and it is the line the reverse pass committed first.
C9_OrderSensitive ==
  IsScenario /\ ScenarioOracle /\ pc = "exit0" =>
    /\ Removed(1, 3) # Removed(1, 7)
    /\ stat.c1 >= 1
    /\ committed # <<>>
    /\ committed[1][1] = 1
    /\ Removed(1, committed[1][2])

\* the scenario run has ended and the builder was seen to fail with both
\* lines disabled
C9_Witness ==
  /\ IsScenario
  /\ ScenarioOracle
  /\ pc = "exit0"
  /\ stat.p2
  /\ \E k \in DOMAIN memo :
       /\ k[1][3] = comment \o orig[1][3].txt
       /\ k[1][7] = comment \o orig[1][7].txt

\* ------------------------------------------------------------------ C10
\* main has finished with a file: stat still describes that file
AfterFile ==
  \/ pc = "exit0"
  \/ pc = "scan" /\ is_reversed /\ file_idx > 1

\* C10: Pass 2 of a file runs only if Pass 1 committed a removal, and once
\* main has finished with a file, Pass 2 has run if and only if Pass 1
\* committed a removal; a file whose n candidates were all reverted in Pass
\* 1 has cost exactly 2n builds.
C10_SkipPass2 ==
  /\ stat.p2 => stat.c1 >= 1
  /\ AfterFile =>
       /\ stat.c1 >= 1 => stat.p2
       /\ stat.c1 = 0 => ~stat.p2 /\ builds - stat.b0 = 2 * stat.n

\* main has finished with a file whose two candidates were both reverted
C10_Witness ==
  /\ AfterFile
  /\ stat.n >= 2
  /\ stat.c1 = 0
  /\ ~stat.p2
  /\ builds - stat.b0 = 2 * stat.n

\* ------------------------------------------------------------------ C11
\* C11: in every prune_include call the builder runs at most twice: the
\* call that commits ends after exactly one build, the restore build runs
\* exactly when the test build left the artifact absent, and the call that
\* restores ends, by a return or by the abort, after exactly two builds.
C11_BuildCount ==
  [][ /\ InFlight => builds - stat.tb \in 0..2
      /\ pc \in {"mutate", "test_build"} => builds = stat.tb
      /\ pc = "test_build" => builds' = stat.tb + 1
      /\ pc = "test_check" =>
           IF artifact
           THEN pc' = "loop" /\ new_is_changed' /\ builds' = stat.tb + 1
           ELSE pc' = "restore_build" /\ builds' = stat.tb + 1
      /\ pc = "restore_build" => ~artifact /\ builds' = stat.tb + 2
      /\ pc = "restore_check" =>
           /\ pc' \in {"loop", "exit1"}
           /\ builds' = stat.tb + 2
    ]_vars

\* a pass has ended in which one call committed after one build and another
\* restored after two
C11_Witness ==
  /\ pc = "loop"
  /\ include_lines = <<>>
  /\ is_reversed
  /\ stat.trials = 2
  /\ stat.c1 = 1
  /\ builds - stat.b0 = 3

\* ------------------------------------------------------------------ C12
\* what holds once the process has exited
ExitState ==
  /\ pc = "exit0" =>
       /\ Len(files) > 0
       /\ artifact
       /\ builds >= 1
       /\ exit_msg = NoError
  /\ pc = "exit1" =>
       /\ exit_msg.kind \in {"nofiles", "baseline", "notfound", "restore"}
       /\ exit_msg.kind = "nofiles" <=> Len(files) = 0
       /\ exit_msg.kind = "nofiles" => builds = 0 /\ files = orig
       /\ exit_msg.kind \in {"baseline", "notfound"} =>
            ~artifact /\ builds <= 1 /\ files = orig /\ committed = <<>>
       /\ exit_msg.kind = "restore" => ~artifact /\ builds >= 3

\* the steps by which the process exits
ExitStep ==
  /\ pc = "main" => (Len(files) = 0 <=> pc' = "exit1")
  /\ pc = "init_build" => (~found <=> pc' = "exit1")
  /\ pc = "init_check" => (~artifact <=> pc' = "exit1")
  /\ pc = "restore_check" => (~artifact <=> pc' = "exit1")
  /\ pc' = "exit1" =>
       pc \in {"main", "init_build", "init_check", "restore_check"}
  /\ pc' = "exit0" =>
       /\ pc = "loop"
       /\ file_idx = Len(files)
       /\ include_lines = <<>>
  /\ pc \notin {"exit0", "exit1"}

\* C12: the process exits with status 0 only after the last file was
\* scanned, which needs a file, a baseline build that produced the artifact
\* and no failed restore; it exits with status 1 and a message exactly when
\* there is no file (then before any build or rewrite), when the baseline
\* build did not produce the artifact (the builder left it absent or could
\* not be started), or when a restore build left the artifact absent.
C12_ExitContract == [][ExitStep /\ ExitState']_vars

\* the run has stopped for want of files: nothing was built and not even
\* the artifact of an earlier build was removed
C12_Witness ==
  /\ pc = "exit1"
  /\ exit_msg.kind = "nofiles"
  /\ builds = 0
  /\ artifact

\* ------------------------------------------------------------------ C13
\* C13: the artifact is absent whenever the builder is about to run (the
\* baseline build, every test build, every restore build), so an artifact
\* found by a check was produced by the build just before it; in a
\* deterministic run it is what the builder makes of the texts on disk.
C13_NoStaleSuccess ==
  /\ pc \in {"init_build", "test_build", "restore_build"} => ~artifact
  /\ pc \in {"init_check", "test_check", "restore_check"} /\ artifact =>
       /\ built = files
       /\ det => Key \in DOMAIN memo /\ memo[Key]

\* the test build of a second trial is about to run: the artifact the
\* trial before it ended with has been deleted
C13_Witness ==
  /\ pc = "test_build"
  /\ ~artifact
  /\ builds >= 1
  /\ stat.trials >= 2

\* ------------------------------------------------------------------ C14
StrictlyDecreasing(s) == \A i \in 1..(Len(s) - 1) : s[i] > s[i + 1]

StrictlyIncreasing(s) == \A i \in 1..(Len(s) - 1) : s[i] < s[i + 1]

\* the current pass has tried its last candidate
PassDone == pc = "loop" /\ include_lines = <<>>

\* C14: the line numbers Pass 1 tries are strictly decreasing, those Pass 2
\* tries strictly increasing; every pass works on a scan of the file as it
\* is when the pass starts (for Pass 2: as Pass 1 left it); a pass tries
\* scanned lines only, none twice, and all of them once it is done.
C14_PassOrder ==
  [][ /\ pc # "scan" =>
           IF is_reversed THEN StrictlyDecreasing(stat.tried)
                          ELSE StrictlyIncreasing(stat.tried)
      /\ pc = "scan" =>
           /\ DOMAIN backup_lines' = Range(Scan(files[file_idx]))
           /\ stat'.tried = <<>>
           /\ ~is_reversed => files[file_idx] = stat.p1end
      /\ pc \notin {"main", "init_build", "init_check", "scan"} =>
           /\ Range(stat.tried) \subseteq DOMAIN backup_lines
           /\ PassDone => Range(stat.tried) = DOMAIN backup_lines
    ]_vars

\* Pass 1 has tried two candidates and disabled one, Pass 2 has scanned the
\* file again and tried the one that was left
C14_Witness ==
  /\ PassDone
  /\ ~is_reversed
  /\ ProperComment
  /\ stat.n = 2
  /\ Len(stat.tried) = 1
  /\ stat.trials = 3

\* ------------------------------------------------------------------ C15
\* Pass 2 is under way, or done, after a Pass 1 that committed nothing
InNeedlessPass2 ==
  /\ det
  /\ ~is_reversed
  /\ stat.p2
  /\ stat.c1 = 0
  /\ pc \in {"loop", "mutate", "test_build", "test_check", "restore_build",
             "restore_check"}

\* C15: with a deterministic builder, a Pass 2 run after a Pass 1 that
\* committed nothing commits nothing and does not abort, learns nothing
\* about the builder, and leaves the file, the artifact and therefore the
\* rest of the run as skipping it would have.
C15_ShortCircuit ==
  [][ InNeedlessPass2 =>
        /\ committed' = committed
        /\ memo' = memo
        /\ pc' # "exit1"
        /\ PassDone =>
             /\ files[file_idx] = stat.p1end
             /\ artifact
             /\ built = files
    ]_vars

\* a Pass 2 that followed a Pass 1 without commits has tried both candidates
\* of the file again
C15_Witness ==
  /\ InNeedlessPass2
  /\ PassDone
  /\ stat.n = 2
  /\ stat.trials = 4

\* ------------------------------------------------------------------ C16
\* C16: initialize is entered once, from the start of main, and no scan or
\* trial begins before its build has produced the artifact; the files are
\* taken one by one in the order of file_list, the next one only when the
\* passes of the current one are over (Pass 1, and Pass 2 if Pass 1
\* committed); a file is written only inside a trial of the current file,
\* and there is only ever the one trial.
C16_DriverOrder ==
  [][ /\ pc' = "main" => pc = "main"
      /\ pc' = "init_build" => pc = "main" /\ builds = 0
      /\ pc = "init_check" /\ pc' = "scan" =>
           artifact /\ builds = 1 /\ file_idx' = 1 /\ stat.trials = 0
      /\ pc' \in {"scan", "loop", "mutate"} => builds' >= 1
      /\ file_idx' \in {file_idx, file_idx + 1}
      /\ file_idx' # file_idx /\ file_idx > 0 =>
           /\ PassDone
           /\ stat.passes = IF stat.c1 >= 1 THEN 2 ELSE 1
           /\ is_reversed'
      /\ InFlight' =>
           /\ file_idx' = file_idx
           /\ line_number' \in Range(Scan(pre'[file_idx]))
      /\ files' # files =>
           /\ InFlight
           /\ \A f \in 1..Len(files) : f # file_idx => files'[f] = files[f]
    ]_vars

\* the first trial of the second file begins after both passes of the
\* first file
C16_Witness ==
  /\ pc = "mutate"
  /\ file_idx = 2
  /\ stat.trials = 1
  /\ \E k \in 1..Len(committed) : committed[k][1] = 1

\* ------------------------------------------------------------------ C17
\* C17: every file keeps the number of lines it had when the run started,
\* and when a trial begins the line at the number the scan recorded reads
\* as the text the scan captured for it, whatever the trials before it in
\* the pass did.
C17_NumberingValid ==
  /\ \A f \in 1..Len(files) : Len(files[f]) = Len(orig[f])
  /\ Len(files) = Len(orig)
  /\ pc = "mutate" =>
       /\ line_number \in DOMAIN backup_lines
       /\ line_number \in 1..Len(files[file_idx])
       /\ ReadLine(files[file_idx][line_number]) = backup_lines[line_number]

\* the trial of the upper candidate begins after Pass 1 disabled the lower
\* one
C17_Witness ==
  /\ pc = "mutate"
  /\ is_reversed
  /\ Len(stat.tried) = 2
  /\ stat.c1 = 1
  /\ ReadLine(files[file_idx][line_number]) = backup_lines[line_number]

\* ------------------------------------------------------------------ C18
\* the whole call does to the file what the one-step inplace_insert does
InplaceDone ==
  pc = "ip_done" =>
    /\ io.exists
    /\ files[file_idx] =
         inplace_insert(pre[file_idx], line_number, io.replace_line)

\* C18: a process that reads the file while inplace_insert rewrites it
\* finds the file, and finds in it either the complete content before the
\* call or the complete content after it.
C18_AtomicRewrite ==
  io.seen # <<>> =>
    /\ io.seen[1].exists
    /\ io.seen[1].content \in
         { pre[file_idx],
           inplace_insert(pre[file_idx], line_number, io.replace_line) }

\* ------------------------------------------------------------------ C19
\* control is between trials: initialize has returned and no prune_include
\* call is under way
BetweenTrials == pc \in {"scan", "loop", "exit0"}

\* C19: whenever control is between trials, and so when the run ends with
\* the success exit, the artifact exists and the last build was made on
\* the content the files have now; for a deterministic builder it is the
\* artifact the builder produces from the texts on disk.
C19_KnownGood ==
  BetweenTrials =>
    /\ artifact
    /\ built = files
    /\ builds >= 1
    /\ det => Key \in DOMAIN memo /\ memo[Key]

\* the run has ended with the success exit after a trial that was committed
\* and a later one that was restored
C19_Witness ==
  /\ pc = "exit0"
  /\ committed # <<>>
  /\ ~new_is_changed
  /\ files # orig
  /\ built = files

\* ------------------------------------------------------------------ C20
Exited == pc \in {"exit0", "exit1"}

\* the trials and the passes of the file being processed
TrialsBounded ==
  /\ stat.passes <= 2
  /\ Len(stat.tried) <= stat.n
  /\ stat.trials <= 2 * stat.n
  /\ ~stat.p2 => stat.trials <= stat.n
  /\ stat.p2 => stat.trials = stat.n + Len(stat.tried)

\* C20: every run reaches the success exit or a failure exit; a file with
\* n candidates at its first scan undergoes at most n trials in Pass 1 and
\* at most n in Pass 2, and is never scanned a third time.
C20_Termination == <>Exited /\ []TrialsBounded

\* the run has ended after a Pass 2 that tried as many candidates as Pass 1
\* and committed a removal: no further pass followed
C20_Witness ==
  /\ pc = "exit0"
  /\ Len(files) = 1
  /\ stat.n = 2
  /\ stat.passes = 2
  /\ stat.trials = 4
  /\ Len(committed) > stat.c1
====
